---- MODULE Spec2Model ----
(***************************************************************************)
(* A model of the job scheduler: the Metadata Store tables (jobs,          *)
(* job_schedules, job_executions), the Redis lanes of JobQueueService      *)
(* (ready, processing, retrying, completed, job_data), the Dispatcher      *)
(* (SchedulerService.ProcessReadyJobs), the completion handler             *)
(* (SchedulerService.HandleJobCompletion) and the worker processes         *)
(* (WorkerService: the claim loop, processJob, the retry/cleanup ticker).  *)
(*                                                                         *)
(* Time is a natural number of seconds.  A CRON schedule is modelled by    *)
(* its period in seconds ("*/P * * * * *"): it fires at the multiples of   *)
(* P.  Every Redis command and every SQL statement is one atomic step;     *)
(* a Go function that issues several of them is several steps, so that     *)
(* other goroutines and processes interleave between them.  Redis and      *)
(* SQL commands succeed, but for the update of a job_executions row to     *)
(* RUNNING, whose failure processJob ignores, the inserts of CreateJob,    *)
(* and, in the specifications that set "faults", the statements of a poll  *)
(* and of processJob.                                                      *)
(***************************************************************************)
EXTENDS Integers, Sequences, FiniteSets, TLC

(***************************************************************************)
(* Bounds of the model.                                                    *)
(***************************************************************************)
NumJobs == 2
NumProcs == 2
PoolSize == 1
MaxTime == 3
MaxPolls == 2
MaxRetry == 1
CompletedCap == 1
MaxStarts == 2
BatchSize == 1

JobIds == 1..NumJobs
Procs == 1..NumProcs
Slots == Procs \X (1..PoolSize)
Loops == Procs \X (1..MaxStarts)

AT_LEAST_ONCE == "AT_LEAST_ONCE"
AT_MOST_ONCE == "AT_MOST_ONCE"
JobTypes == {AT_LEAST_ONCE, AT_MOST_ONCE}

StatusScheduled == "SCHEDULED"
StatusRunning == "RUNNING"
StatusSuccess == "SUCCESS"
StatusFailed == "FAILED"

QueueStatusCompleted == "completed"
QueueStatusFailed == "failed"

\* The value of schedules[j] when the job has no job_schedules row.
NoRow == -1

VARIABLES
    now,          \* wall clock, seconds
    jobs,         \* jobs table: job id -> row (NoJob: no row)
    schedules,    \* job_schedules table: job id -> next_execution_time, or NoRow
    executions,   \* job_executions table: sequence of rows, id = index
    ready,        \* job_queue:ready, head (LPush side) first
    processing,   \* job_queue:processing, a set of queue ids
    jobData,      \* job_data:{queue id} keys: queue id -> stored body
    retrying,     \* job_queue:retrying, a set of [score, msg]
    completed,    \* job_queue:completed, head (LPush side) first
    nextQid,      \* the next value generateQueueJobID returns
    polls,        \* number of polls that enqueued something
    loops,        \* per claim loop goroutine <<p, k>>: its position and message
    cancelled,    \* per worker process: Stop() was called (shutdown, ctx cancelled)
    permits,      \* per worker process: permits held in workerPool
    tasks,        \* per pool slot: the processJob goroutine's position and locals
    ticker,       \* the retry/cleanup ticker goroutine: position and snapshots
    schedHist,    \* history: per job, the values stored in next_execution_time
    handled,      \* history: execution ids whose processJob has returned
    lastCall,     \* history: the last direct call of HandleJobCompletion
    qj,           \* the QueueJob CalculateRetryDelay is called on by itself
    delay,        \* the time.Duration that call returned (NoDelay: not called)
    faults,       \* whether the store's statements and a poll's LPUSH may fail
    lastPoll,     \* history: what the last poll returned and the rows it failed to enqueue
    target        \* the jobs' HTTP endpoint: the calls it has answered (AnyTarget: it answers anyhow)

vars == <<now, jobs, schedules, executions, ready, processing, jobData, retrying,
          completed, nextQid, polls, loops, cancelled, permits, tasks, ticker,
          schedHist, handled, lastCall, qj, delay, faults, lastPoll, target>>

(***************************************************************************)
(* Schedule Engine: the next firing strictly after fromTime.               *)
(***************************************************************************)
CalculateNextExecutionFromTime(schedule, fromTime) ==
    ((fromTime \div schedule) + 1) * schedule

(***************************************************************************)
(* QueueJob (models/queue_job.go).                                         *)
(***************************************************************************)
NoMsg == [id |-> 0, job |-> 0, rc |-> 0, max |-> 0, type |-> AT_MOST_ONCE, sched |-> 0]

NewQueueJob(j, qid) ==
    [id |-> qid, job |-> j, rc |-> 0, max |-> jobs[j].maxRetryCount,
     type |-> jobs[j].type, sched |-> schedules[j]]

\* A faulty variant of ShouldRetry: the test of the job type is missing.
ShouldRetryOfAnyType(m) == m.rc < m.max

ShouldRetry(m) ==
    IF m.rc >= m.max THEN FALSE
    ELSE IF m.type = AT_MOST_ONCE THEN FALSE
    ELSE m.type = AT_LEAST_ONCE

\* A faulty variant of IncrementRetry: the retry keeps the queue id of the attempt.
IncrementRetryKeepsId(m, qid) == [m EXCEPT !.rc = m.rc + 1]

IncrementRetry(m, qid) == [m EXCEPT !.rc = m.rc + 1, !.id = qid]

Pow2(n) == IF n <= 0 THEN 1 ELSE 2 ^ n

(***************************************************************************)
(* Go's int and time.Duration are 64-bit two's complement integers on the  *)
(* platforms the service is built for.  A value is its eight bytes, least  *)
(* significant first; the operators below are the machine's: a shift and a *)
(* product keep the low 64 bits, a comparison is signed.                   *)
(***************************************************************************)
\* A local variable: F of the value of v, v being evaluated once.
Apply(F(_), v) == CHOOSE r \in {F(x) : x \in {v}} : TRUE

\* The conversion of a constant 0 <= n < 2^31.
ToInt64(n) ==
    <<n % 256, (n \div 256) % 256, (n \div 65536) % 256, (n \div 16777216) % 256, 0, 0, 0, 0>>

\* 1 << n for n >= 0: the bit leaves the word when n >= 64.
ShiftLeft(n) ==
    LET byte(i) == IF n < 64 /\ i = (n \div 8) + 1 THEN Pow2(n % 8) ELSE 0
    IN  <<byte(1), byte(2), byte(3), byte(4), byte(5), byte(6), byte(7), byte(8)>>

RECURSIVE ColumnSum(_, _, _, _)
ColumnSum(a, b, i, j) ==
    IF j = 0 THEN 0 ELSE a[j] * b[i - j + 1] + ColumnSum(a, b, i, j - 1)

RECURSIVE Carry(_, _, _)
Carry(a, b, i) ==
    IF i = 0 THEN 0 ELSE (ColumnSum(a, b, i, i) + Carry(a, b, i - 1)) \div 256

Product(a, b) ==
    LET byte(i) == (ColumnSum(a, b, i, i) + Carry(a, b, i - 1)) % 256
    IN  <<byte(1), byte(2), byte(3), byte(4), byte(5), byte(6), byte(7), byte(8)>>

\* a * b, the low 64 bits.
Mul(a, b) == Apply(LAMBDA x : Apply(LAMBDA y : Product(x, y), b), a)

Negative(a) == a[8] >= 128

RECURSIVE UnsignedLess(_, _, _)
UnsignedLess(a, b, i) ==
    IF i = 0 THEN FALSE
    ELSE IF a[i] # b[i] THEN a[i] < b[i]
    ELSE UnsignedLess(a, b, i - 1)

SignedLess(a, b) == IF Negative(a) # Negative(b) THEN Negative(a) ELSE UnsignedLess(a, b, 8)

\* a < b, signed.
Less(a, b) == Apply(LAMBDA x : Apply(LAMBDA y : SignedLess(x, y), b), a)

\* -a.
Neg(a) == Mul(a, <<255, 255, 255, 255, 255, 255, 255, 255>>)

\* a >> 9, unsigned.
ShiftRight9(a) ==
    LET byte(i) == (a[i + 1] \div 2) + (IF i < 7 THEN (a[i + 2] % 2) * 128 ELSE 0)
    IN  <<byte(1), byte(2), byte(3), byte(4), byte(5), byte(6), byte(7), 0>>

\* The quotient and remainder of the unsigned value of bytes i..8 of a by
\* 1953125 = 10^9 / 2^9.
RECURSIVE DivSecond(_, _)
DivSecond(a, i) ==
    IF i = 9 THEN [q |-> 0, r |-> 0]
    ELSE Apply(LAMBDA high :
                   LET rest == 256 * high.r + a[i]
                   IN  [q |-> 256 * high.q + (rest \div 1953125), r |-> rest % 1953125],
               DivSecond(a, i + 1))

\* The whole seconds of the unsigned a, rounded down and rounded up.
Floor(a) == Apply(LAMBDA s : DivSecond(s, 1).q, ShiftRight9(a))

Ceiling(a) ==
    Apply(LAMBDA h : h.q + (IF h.r = 0 /\ a[1] = 0 /\ a[2] % 2 = 0 THEN 0 ELSE 1),
          Apply(LAMBDA s : DivSecond(s, 1), ShiftRight9(a)))

\* time.Second and time.Minute, in nanoseconds.
Second == ToInt64(1000000000)
Minute == Mul(ToInt64(60), Second)
MaxDelay == Mul(ToInt64(5), Minute)

\* The value of delay before CalculateRetryDelay is called.
NoDelay == <<>>

\* 1 << RetryCount seconds, capped at 5 minutes.
CalculateRetryDelay(m) ==
    LET delaySeconds == ShiftLeft(m.rc)
    IN  Apply(LAMBDA d : IF Less(MaxDelay, d) THEN MaxDelay ELSE d, Mul(delaySeconds, Second))

\* time.Now().Add(d).Unix() - time.Now().Unix() on a whole second: the whole
\* seconds of d, rounded down.
Seconds(d) ==
    Apply(LAMBDA x : IF Negative(x) THEN -Apply(LAMBDA n : Ceiling(n), Neg(x)) ELSE Floor(x), d)

(***************************************************************************)
(* Initial state: job 1 has been created and awaits its first firing; the  *)
(* other jobs are one-shot jobs that have already finished (no row).       *)
(***************************************************************************)
\* The k-th claim loop of worker process p runs once Start() has been called k
\* times on the process's WorkerService; "none" is a goroutine not launched.
NotStarted == [pc |-> "none", msg |-> NoMsg]
IdleLoop == [pc |-> "dequeue", msg |-> NoMsg]
\* The errorMsg FailJob is called with, by its three callers in processJob and
\* handleFailedJob; NoError before any of them.
NoError == ""
ErrCheckExecution == "Failed to check for existing execution"
ErrCreateExecution == "Failed to create execution record"
ErrAPICall == "API call failed"

IdleTask == [pc |-> "idle", msg |-> NoMsg, eid |-> 0, success |-> FALSE, hsched |-> NoRow,
             error |-> NoError]
\* The target answers a call with a 2xx status or otherwise, as it likes.
AnyTarget == -1

\* A poll that returned nil and enqueued every row it harvested.
NoPoll == [err |-> FALSE, failed |-> {}]
NoCall == [job |-> 0, success |-> FALSE, n |-> 0, once |-> <<>>]
IdleTicker == [pc |-> "idle", due |-> <<>>, snap |-> <<>>, ids |-> {}, orphans |-> {}, reaped |-> {},
               live |-> {}]

JobRows ==
    [schedule : {1}, type : JobTypes, isRecurring : BOOLEAN, maxRetryCount : 0..MaxRetry,
     isActive : {TRUE}]

\* jobs[j] when the jobs table has no row with id j.
NoJob == [schedule |-> 0, type |-> AT_MOST_ONCE, isRecurring |-> FALSE, maxRetryCount |-> 0,
          isActive |-> FALSE]

InitLanes ==
    /\ now = 0
    /\ executions = <<>>
    /\ ready = <<>>
    /\ processing = {}
    /\ jobData = <<>>
    /\ retrying = {}
    /\ completed = <<>>
    /\ nextQid = 1
    /\ polls = 0
    /\ cancelled = [p \in Procs |-> FALSE]
    /\ permits = [p \in Procs |-> 0]
    /\ tasks = [s \in Slots |-> IdleTask]
    /\ ticker = IdleTicker
    /\ handled = {}
    /\ lastCall = NoCall
    /\ lastPoll = NoPoll

\* CalculateRetryDelay is not called on its own; no command of a poll fails.
InitQueues ==
    /\ InitLanes
    /\ qj = NoMsg
    /\ delay = NoDelay
    /\ faults = FALSE
    /\ target = AnyTarget

\* main has called Start() once on every worker process.
InitCommon ==
    /\ InitQueues
    /\ loops = [l \in Loops |-> IF l[2] = 1 THEN IdleLoop ELSE NotStarted]

Init ==
    /\ InitCommon
    /\ \E r \in JobRows :
          jobs = [j \in JobIds |-> IF j = 1 THEN r
                                   ELSE [schedule |-> 2, type |-> AT_MOST_ONCE,
                                         isRecurring |-> FALSE, maxRetryCount |-> 0,
                                         isActive |-> TRUE]]
    /\ schedules = [j \in JobIds |->
                       IF j = 1 THEN CalculateNextExecutionFromTime(jobs[j].schedule, now)
                       ELSE NoRow]
    /\ schedHist = [j \in JobIds |-> IF schedules[j] = NoRow THEN <<>> ELSE <<schedules[j]>>]

(***************************************************************************)
(* The clock.                                                              *)
(***************************************************************************)
Advance(limit) ==
    /\ now < limit
    /\ now' = now + 1
    /\ UNCHANGED <<target, faults, lastPoll, qj, delay, lastCall, jobs, schedules, executions, ready, processing, jobData, retrying,
                   completed, nextQid, polls, loops, cancelled, permits, tasks, ticker,
                   schedHist, handled>>

Tick == Advance(MaxTime)

(***************************************************************************)
(* Redis commands on the lanes.                                            *)
(***************************************************************************)
\* A faulty variant of LPush: the entry is added at the end BRPOP takes from.
RPush(list, x) == Append(list, x)

LPush(list, x) == <<x>> \o list

\* LTRIM key 0 stop: keep the entries at indexes 0..stop.
LTrim(list, stop) == SubSeq(list, 1, IF Len(list) < stop + 1 THEN Len(list) ELSE stop + 1)

SetKey(data, id, body) ==
    [k \in (DOMAIN data) \cup {id} |-> IF k = id THEN body ELSE data[k]]

DelKey(data, id) == [k \in (DOMAIN data) \ {id} |-> data[k]]

Exists(data, id) == id \in DOMAIN data

\* The body of a member that is not the JSON of a QueueJob, as the member
\* "test-job-123" of TestJobQueueService_ProcessRetryQueue.
NotJSON == [NoMsg EXCEPT !.id = -1]

\* DeserializeQueueJob returns an error.
DeserializeErr(body) == body = NotJSON

\* ZRANGEBYSCORE retrying 0 max: ascending score, equal scores by member.
ZBefore(a, b) == a.score < b.score \/ (a.score = b.score /\ a.msg.id < b.msg.id)

RECURSIVE ZSorted(_)
ZSorted(S) ==
    IF S = {} THEN <<>>
    ELSE LET f == CHOOSE a \in S : \A b \in S \ {a} : ZBefore(a, b)
         IN <<f>> \o ZSorted(S \ {f})

\* A faulty variant of ZRangeByScore: the members of any score.
ZRangeOfAnyScore(zset, max) == ZSorted(zset)

ZRangeByScore(zset, max) == ZSorted({z \in zset : 0 <= z.score /\ z.score <= max})

\* EnqueueJob for each element of a sequence of messages, in order.
RECURSIVE EnqueueAll(_, _)
EnqueueAll(list, msgs) ==
    IF msgs = <<>> THEN list
    ELSE EnqueueAll(LPush(list, Head(msgs)), Tail(msgs))

(***************************************************************************)
(* Dispatcher: SchedulerService.ProcessReadyJobs.                          *)
(***************************************************************************)
\* A faulty variant of DueJobs: the test of jobs.is_active is missing.
DueJobsOfAnyJob == {j \in JobIds : schedules[j] # NoRow /\ schedules[j] <= now}

\* WHERE next_execution_time <= now AND jobs.is_active AND deleted_at IS NULL.
DueJobs == {j \in JobIds : schedules[j] # NoRow /\ schedules[j] <= now /\ jobs[j].isActive}

\* GetJobsReadyForExecution: ORDER BY next_execution_time ASC LIMIT limit; rows with
\* equal times come in any order.
Harvests(limit) ==
    LET n == IF Cardinality(DueJobs) < limit THEN Cardinality(DueJobs) ELSE limit
    IN {h \in [1..n -> DueJobs] :
           /\ \A a, b \in 1..n : a < b => h[a] # h[b] /\ schedules[h[a]] <= schedules[h[b]]
           /\ \A j \in DueJobs :
                 (\A a \in 1..n : h[a] # j) => \A a \in 1..n : schedules[h[a]] <= schedules[j]}

\* ProcessRetryQueue run without interruption: every due member that
\* deserializes leaves retrying and is pushed to ready, in ZRANGEBYSCORE order; a
\* member that does not is skipped.
Promotable(z) == ~DeserializeErr(z.msg)

PromotedMsgs == LET due == SelectSeq(ZRangeByScore(retrying, now), Promotable)
                IN [i \in 1..Len(due) |-> due[i].msg]

\* A faulty variant of Kept: a row whose EnqueueJob failed is enqueued all the same.
KeptAll(h, lost) == h

\* The rows of h but those at the positions in lost, in order.
Kept(h, lost) ==
    LET idx == {i \in DOMAIN h : i \notin lost}
        pos(k) == CHOOSE i \in idx : Cardinality({x \in idx : x < i}) = k - 1
    IN  [k \in 1..Cardinality(idx) |-> h[pos(k)]]

\* A faulty variant of PolledSchedules: the poll advances the rows it harvested.
PolledSchedulesAdvanced(h) ==
    [j \in JobIds |-> IF \E i \in DOMAIN h : h[i] = j
                      THEN CalculateNextExecutionFromTime(jobs[j].schedule, now)
                      ELSE schedules[j]]

\* job_schedules after a poll that harvested the rows h: the poll calls no
\* storage method but GetJobsReadyForExecution, a SELECT.
PolledSchedules(h) == schedules

\* One poll.  GetJobsReadyForExecution fails (the poll returns the error), or
\* returns no row (nil), or returns the rows h: ProcessRetryQueue, then NewQueueJob
\* and EnqueueJob for every row, a failed EnqueueJob being logged and skipped.
ProcessReadyJobs ==
    /\ polls < MaxPolls
    /\ \E queryOk \in (IF faults THEN BOOLEAN ELSE {TRUE}) :
          IF ~queryOk
          THEN /\ lastPoll' = [err |-> TRUE, failed |-> {}]
               /\ UNCHANGED <<ready, retrying, nextQid, polls, schedules>>
          ELSE IF DueJobs = {}
          THEN /\ lastPoll' = NoPoll
               /\ UNCHANGED <<ready, retrying, nextQid, polls, schedules>>
          ELSE /\ \E h \in Harvests(BatchSize) :
                  \E lost \in (IF faults THEN SUBSET (1..Len(h)) ELSE {{}}) :
                     LET kept == Kept(h, lost)
                         new == [i \in 1..Len(kept) |-> NewQueueJob(kept[i], nextQid + i - 1)]
                     IN /\ ready' = EnqueueAll(EnqueueAll(ready, PromotedMsgs), new)
                        /\ retrying' = {z \in retrying :
                                          ~(0 <= z.score /\ z.score <= now /\ Promotable(z))}
                        /\ nextQid' = nextQid + Len(kept)
                        /\ lastPoll' = [err |-> FALSE, failed |-> {h[i] : i \in lost}]
                        /\ schedules' = PolledSchedules(h)
               /\ polls' = polls + 1
    /\ UNCHANGED <<target, faults, qj, delay, lastCall, now, jobs, executions, processing,
                   jobData, completed, loops, cancelled, permits, tasks, ticker, schedHist,
                   handled>>

(***************************************************************************)
(* Claim loop l = <<p, k>> of worker process p (WorkerService.workerLoop    *)
(* with JobQueueService.DequeueJob and MoveToProcessing inlined).  At      *)
(* "dequeue" the loop has passed its shutdown check and waits in BRPOP.    *)
(***************************************************************************)
FreeSlots(p) == {s \in Slots : s[1] = p /\ tasks[s].pc = "idle"}

\* A faulty variant of BRPop: the oldest entry is read and left in ready.
BRPeek(l) ==
    /\ loops[l].pc = "dequeue"
    /\ ready # <<>>
    /\ loops' = [loops EXCEPT ![l] = [pc |-> "sadd", msg |-> ready[Len(ready)]]]
    /\ UNCHANGED <<target, faults, lastPoll, qj, delay, lastCall, now, jobs, schedules, executions, ready, processing, jobData, retrying,
                   completed, nextQid, polls, cancelled, permits, tasks, ticker,
                   schedHist, handled>>

\* BRPOP returned the oldest entry of ready.
BRPop(l) ==
    /\ loops[l].pc = "dequeue"
    /\ ready # <<>>
    /\ loops' = [loops EXCEPT ![l] = [pc |-> "sadd", msg |-> ready[Len(ready)]]]
    /\ ready' = SubSeq(ready, 1, Len(ready) - 1)
    /\ UNCHANGED <<target, faults, lastPoll, qj, delay, lastCall, now, jobs, schedules, executions, processing, jobData, retrying,
                   completed, nextQid, polls, cancelled, permits, tasks, ticker,
                   schedHist, handled>>

\* MoveToProcessing: SADD job_queue:processing id.
MoveSAdd(l) ==
    /\ loops[l].pc = "sadd"
    /\ processing' = processing \cup {loops[l].msg.id}
    /\ loops' = [loops EXCEPT ![l].pc = "setdata"]
    /\ UNCHANGED <<target, faults, lastPoll, qj, delay, lastCall, now, jobs, schedules, executions, ready, jobData, retrying,
                   completed, nextQid, polls, cancelled, permits, tasks, ticker,
                   schedHist, handled>>

\* MoveToProcessing: SET job_data:id body EX 6h.
MoveSetData(l) ==
    /\ loops[l].pc = "setdata"
    /\ jobData' = SetKey(jobData, loops[l].msg.id, loops[l].msg)
    /\ loops' = [loops EXCEPT ![l].pc = "acquire"]
    /\ UNCHANGED <<target, faults, lastPoll, qj, delay, lastCall, now, jobs, schedules, executions, ready, processing, retrying,
                   completed, nextQid, polls, cancelled, permits, tasks, ticker,
                   schedHist, handled>>

\* select case ws.workerPool <- struct{}{}: a permit is taken and processJob starts;
\* the loop goes round and checks for shutdown.
Spawn(l) ==
    /\ loops[l].pc = "acquire"
    /\ permits[l[1]] < PoolSize
    /\ \E s \in FreeSlots(l[1]) :
          tasks' = [tasks EXCEPT ![s] = [IdleTask EXCEPT !.pc = "guard", !.msg = loops[l].msg]]
    /\ permits' = [permits EXCEPT ![l[1]] = permits[l[1]] + 1]
    /\ loops' = [loops EXCEPT ![l] = [pc |-> IF cancelled[l[1]] THEN "stopped" ELSE "dequeue",
                                      msg |-> NoMsg]]
    /\ UNCHANGED <<target, faults, lastPoll, qj, delay, lastCall, now, jobs, schedules, executions, ready, processing, jobData, retrying,
                   completed, nextQid, polls, cancelled, ticker, schedHist, handled>>

\* select case <-ws.ctx.Done(): the held message is put back with EnqueueJob.
Requeue(l) ==
    /\ loops[l].pc = "acquire"
    /\ cancelled[l[1]]
    /\ ready' = LPush(ready, loops[l].msg)
    /\ loops' = [loops EXCEPT ![l] = [pc |-> "stopped", msg |-> NoMsg]]
    /\ UNCHANGED <<target, faults, lastPoll, qj, delay, lastCall, now, jobs, schedules, executions, processing, jobData, retrying,
                   completed, nextQid, polls, cancelled, permits, tasks, ticker,
                   schedHist, handled>>

\* The shutdown check at the top of the loop.
LoopExit(l) ==
    /\ loops[l].pc = "dequeue"
    /\ cancelled[l[1]]
    /\ loops' = [loops EXCEPT ![l].pc = "stopped"]
    /\ UNCHANGED <<target, faults, lastPoll, qj, delay, lastCall, now, jobs, schedules, executions, ready, processing, jobData, retrying,
                   completed, nextQid, polls, cancelled, permits, tasks, ticker,
                   schedHist, handled>>

\* WorkerService.Start: go processRetryQueue() and go workerLoop(), without a
\* test of whether the service is already started.  The runs of the new ticker
\* goroutine are among those Promoter and Reaper take.
Start(p) ==
    /\ \E k \in 1..MaxStarts :
          /\ loops[<<p, k>>].pc = "none"
          /\ \A k2 \in 1..(k - 1) : loops[<<p, k2>>].pc # "none"
          /\ loops' = [loops EXCEPT ![<<p, k>>] = IdleLoop]
    /\ UNCHANGED <<target, faults, lastPoll, qj, delay, lastCall, now, jobs, schedules, executions, ready, processing, jobData, retrying,
                   completed, nextQid, polls, cancelled, permits, tasks, ticker,
                   schedHist, handled>>

\* WorkerService.Stop: shutdown = true and cancel().
Stop(p) ==
    /\ ~cancelled[p]
    /\ cancelled' = [cancelled EXCEPT ![p] = TRUE]
    /\ UNCHANGED <<target, faults, lastPoll, qj, delay, lastCall, now, jobs, schedules, executions, ready, processing, jobData, retrying,
                   completed, nextQid, polls, loops, permits, tasks, ticker,
                   schedHist, handled>>

(***************************************************************************)
(* Metadata Store statements (PostgresStorage).                            *)
(***************************************************************************)
GetJobExecutionInProgress(j) ==
    {i \in DOMAIN executions :
        executions[i].job = j /\ executions[i].status \in {StatusScheduled, StatusRunning}}

\* GetJob finds a row: WHERE is_active = true AND id = j.
GetJob(j) == jobs[j].isActive

\* UPDATE ... WHERE job_id = j: no row affected is ErrJobScheduleNotFound.
UpdateJobSchedule(sch, j, nextExecutionTime) ==
    IF sch[j] = NoRow THEN sch ELSE [sch EXCEPT ![j] = nextExecutionTime]

DeleteJobSchedule(sch, j) == [sch EXCEPT ![j] = NoRow]

(***************************************************************************)
(* Completion handler (SchedulerService).  "read" is the schedule row      *)
(* HandleJobCompletion loaded before it called the handler.                *)
(***************************************************************************)
\* A faulty variant of handleSuccessfulExecution: the non-recurring branch is missing.
handleSuccessfulExecutionAlwaysReschedules(sch, j, read) ==
    UpdateJobSchedule(sch, j, CalculateNextExecutionFromTime(jobs[j].schedule, read))

handleSuccessfulExecution(sch, j, read) ==
    IF ~jobs[j].isRecurring THEN DeleteJobSchedule(sch, j)
    ELSE UpdateJobSchedule(sch, j, CalculateNextExecutionFromTime(jobs[j].schedule, read))

\* A faulty variant of handleFailedExecution: a failure leaves the row alone.
handleFailedExecutionKeepsRow(sch, j, read) == sch

handleFailedExecution(sch, j, read) ==
    IF ~jobs[j].isRecurring THEN DeleteJobSchedule(sch, j)
    ELSE UpdateJobSchedule(sch, j, CalculateNextExecutionFromTime(jobs[j].schedule, read))

\* A faulty variant of HandleJobCompletion: the errors of GetJob and
\* GetJobSchedule are not looked at.
HandleJobCompletionUnchecked(sch, j, success) ==
    IF success THEN handleSuccessfulExecution(sch, j, sch[j])
    ELSE handleFailedExecution(sch, j, sch[j])

\* HandleJobCompletion run without interruption on the table sch.
HandleJobCompletion(sch, j, success) ==
    IF ~GetJob(j) \/ sch[j] = NoRow THEN sch
    ELSE IF success THEN handleSuccessfulExecution(sch, j, sch[j])
    ELSE handleFailedExecution(sch, j, sch[j])

\* The history of stored next_execution_time values after the table goes to sch2.
Stored(sch2, j, wrote) ==
    IF wrote /\ sch2[j] # NoRow THEN [schedHist EXCEPT ![j] = Append(schedHist[j], sch2[j])]
    ELSE schedHist

(***************************************************************************)
(* Admin API: JobHandler.CreateJob (POST /jobs) with a valid request.  The *)
(* handler inserts the jobs row and then the job_schedules row, each in a  *)
(* statement of its own; when an insert fails it answers 500 and returns.  *)
(***************************************************************************)
DefaultMaxRetryCount == 3

CreateJobRequests ==
    [schedule : {1, 2}, type : JobTypes, isRecurring : BOOLEAN, maxRetryCount : 0..MaxRetry]

CreateJob ==
    /\ \E j \in JobIds, req \in CreateJobRequests,
          outcome \in {"job_failed", "schedule_failed", "created"} :
          LET row == [schedule |-> req.schedule, type |-> req.type,
                      isRecurring |-> req.isRecurring,
                      maxRetryCount |-> IF req.maxRetryCount = 0 THEN DefaultMaxRetryCount
                                        ELSE req.maxRetryCount,
                      isActive |-> TRUE]
          IN /\ jobs[j] = NoJob
             /\ \A k \in 1..(j - 1) : jobs[k] # NoJob
             /\ jobs' = IF outcome = "job_failed" THEN jobs ELSE [jobs EXCEPT ![j] = row]
             /\ schedules' =
                   IF outcome = "created"
                   THEN [schedules EXCEPT
                            ![j] = CalculateNextExecutionFromTime(req.schedule, now)]
                   ELSE schedules
             /\ schedHist' = Stored(schedules', j, outcome = "created")
    /\ UNCHANGED <<target, faults, lastPoll, qj, delay, lastCall, now, executions, ready, processing, jobData, retrying,
                   completed, nextQid, polls, loops, cancelled, permits, tasks, ticker,
                   handled>>

\* SchedulerService.HandleJobCompletion called directly, as by
\* TestSchedulerService_HandleJobCompletion_Unit.  "lastCall" counts the calls
\* made in a row with the same arguments and keeps the table the first left.
CallHandleJobCompletion(j, success) ==
    /\ schedules' = HandleJobCompletion(schedules, j, success)
    /\ schedHist' = Stored(schedules', j,
                           GetJob(j) /\ jobs[j].isRecurring /\ schedules[j] # NoRow)
    /\ lastCall' = IF lastCall.job = j /\ lastCall.success = success /\ lastCall.n = 1
                   THEN [lastCall EXCEPT !.n = 2]
                   ELSE [job |-> j, success |-> success, n |-> 1, once |-> schedules']
    /\ UNCHANGED <<target, faults, lastPoll, qj, delay, now, jobs, executions, ready, processing, jobData, retrying,
                   completed, nextQid, polls, loops, cancelled, permits, tasks, ticker,
                   handled>>

(***************************************************************************)
(* Worker process: processJob in pool slot s = <<p, k>>.                   *)
(***************************************************************************)
\* A faulty variant of Release: processJob returns without giving its permit back.
ReleaseNothing(held) == held

\* <-ws.workerPool: one permit leaves the channel.
Release(held) == held - 1

\* processJob returns: the deferred release of the permit.
Return(s) ==
    /\ tasks' = [tasks EXCEPT ![s] = IdleTask]
    /\ permits' = [permits EXCEPT ![s[1]] = Release(permits[s[1]])]
    /\ handled' = IF tasks[s].eid = 0 THEN handled ELSE handled \cup {tasks[s].eid}

\* The outcomes of a statement of the Metadata Store: done, or an error.
Statement == IF faults THEN BOOLEAN ELSE {TRUE}

\* The single-flight guard query; when it fails, FailJob and return.
Guard(s) ==
    /\ tasks[s].pc = "guard"
    /\ \E ok \in Statement :
          tasks' = IF ~ok THEN [tasks EXCEPT ![s].pc = "fj_srem", ![s].error = ErrCheckExecution]
                   ELSE [tasks EXCEPT ![s].pc =
                            IF GetJobExecutionInProgress(tasks[s].msg.job) # {} THEN "abandon"
                            ELSE "create"]
    /\ UNCHANGED <<target, faults, lastPoll, qj, delay, lastCall, now, jobs, schedules, executions, ready, processing, jobData, retrying,
                   completed, nextQid, polls, loops, cancelled, permits, ticker,
                   schedHist, handled>>

\* An execution is in progress: SREM job_queue:processing id, and return.
Abandon(s) ==
    /\ tasks[s].pc = "abandon"
    /\ processing' = processing \ {tasks[s].msg.id}
    /\ Return(s)
    /\ UNCHANGED <<target, faults, lastPoll, qj, delay, lastCall, now, jobs, schedules, executions, ready, jobData, retrying,
                   completed, nextQid, polls, loops, cancelled, ticker, schedHist>>

\* CreateJobExecution with status SCHEDULED; when it fails, FailJob and return.
\* "firing" and "qid" are history fields: the ScheduledAt and the ID of the
\* message that produced the row.
CreateJobExecution(s) ==
    /\ tasks[s].pc = "create"
    /\ \E ok \in Statement :
          IF ok
          THEN /\ executions' = Append(executions,
                                       [job |-> tasks[s].msg.job, status |-> StatusScheduled,
                                        rc |-> tasks[s].msg.rc, firing |-> tasks[s].msg.sched,
                                        qid |-> tasks[s].msg.id])
               /\ tasks' = [tasks EXCEPT ![s].pc = "run", ![s].eid = Len(executions) + 1]
          ELSE /\ executions' = executions
               /\ tasks' = [tasks EXCEPT ![s].pc = "fj_srem", ![s].error = ErrCreateExecution]
    /\ UNCHANGED <<target, faults, lastPoll, qj, delay, lastCall, now, jobs, schedules, ready, processing, jobData, retrying,
                   completed, nextQid, polls, loops, cancelled, permits, ticker,
                   schedHist, handled>>

\* UpdateJobExecution to RUNNING; then the HTTP call starts.  When the update
\* fails processJob logs the error and goes on, the row still SCHEDULED.
UpdateRunning(s) ==
    /\ tasks[s].pc = "run"
    /\ \E ok \in BOOLEAN :
          executions' = IF ok THEN [executions EXCEPT ![tasks[s].eid].status = StatusRunning]
                        ELSE executions
    /\ tasks' = [tasks EXCEPT ![s].pc = "call"]
    /\ UNCHANGED <<target, faults, lastPoll, qj, delay, lastCall, now, jobs, schedules, ready, processing, jobData, retrying,
                   completed, nextQid, polls, loops, cancelled, permits, ticker,
                   schedHist, handled>>

\* A faulty variant of FinalStatus: the row is put back to SCHEDULED.
FinalStatusScheduled(success) == StatusScheduled

\* The status processJob stores after the HTTP call.
FinalStatus(success) == IF success THEN StatusSuccess ELSE StatusFailed

\* The answers the target may give to its next call: a 2xx status or not.  A
\* target that fails twice and then succeeds answers by the number of calls it
\* has answered.
Answers == IF target = AnyTarget THEN BOOLEAN ELSE {target >= 2}

\* callJobAPI returns and UpdateJobExecution stores SUCCESS or FAILED; when the
\* update fails processJob logs the error and goes on, the row as it was.
FinishCall(s) ==
    /\ tasks[s].pc = "call"
    /\ \E success \in Answers, ok \in Statement :
          /\ executions' = IF ok THEN [executions EXCEPT
                                          ![tasks[s].eid].status = FinalStatus(success)]
                           ELSE executions
          /\ tasks' = [tasks EXCEPT ![s].success = success,
                                    ![s].pc = IF success THEN "cj_srem" ELSE "fj_srem",
                                    ![s].error = IF success THEN NoError ELSE ErrAPICall]
    /\ target' = IF target = AnyTarget THEN AnyTarget ELSE target + 1
    /\ UNCHANGED <<faults, lastPoll, qj, delay, lastCall, now, jobs, schedules, ready, processing, jobData, retrying,
                   completed, nextQid, polls, loops, cancelled, permits, ticker,
                   schedHist, handled>>

(***************************************************************************)
(* JobQueueService.CompleteJob, called by handleSuccessfulJob and by       *)
(* FailJob when the message is not retried.                                *)
(***************************************************************************)
QueueJobResult(s) ==
    [id |-> tasks[s].msg.id,
     status |-> IF tasks[s].success THEN QueueStatusCompleted ELSE QueueStatusFailed,
     success |-> tasks[s].success, rc |-> tasks[s].msg.rc]

\* A faulty variant of TrimStop: LTRIM 0 1000 keeps one entry too many.
TrimStopOffByOne == CompletedCap

\* The stop index of LTRIM job_queue:completed 0 999.
TrimStop == CompletedCap - 1

CompleteSRem(s) ==
    /\ tasks[s].pc = "cj_srem"
    /\ processing' = processing \ {tasks[s].msg.id}
    /\ tasks' = [tasks EXCEPT ![s].pc = "cj_del"]
    /\ UNCHANGED <<target, faults, lastPoll, qj, delay, lastCall, now, jobs, schedules, executions, ready, jobData, retrying,
                   completed, nextQid, polls, loops, cancelled, permits, ticker,
                   schedHist, handled>>

CompleteDel(s) ==
    /\ tasks[s].pc = "cj_del"
    /\ jobData' = DelKey(jobData, tasks[s].msg.id)
    /\ tasks' = [tasks EXCEPT ![s].pc = "cj_push"]
    /\ UNCHANGED <<target, faults, lastPoll, qj, delay, lastCall, now, jobs, schedules, executions, ready, processing, retrying,
                   completed, nextQid, polls, loops, cancelled, permits, ticker,
                   schedHist, handled>>

CompleteLPush(s) ==
    /\ tasks[s].pc = "cj_push"
    /\ completed' = LPush(completed, QueueJobResult(s))
    /\ tasks' = [tasks EXCEPT ![s].pc = "cj_trim"]
    /\ UNCHANGED <<target, faults, lastPoll, qj, delay, lastCall, now, jobs, schedules, executions, ready, processing, jobData, retrying,
                   nextQid, polls, loops, cancelled, permits, ticker,
                   schedHist, handled>>

\* A faulty variant of InHandleFailedJob: every caller of FailJob goes on to notify
\* the scheduler.
InHandleFailedJobAlways(s) == ~tasks[s].success

\* FailJob was called by handleFailedJob, not by processJob itself.
InHandleFailedJob(s) == ~tasks[s].success /\ tasks[s].error = ErrAPICall

\* LTRIM; then handleSuccessfulJob returns to processJob, which returns, as does
\* a FailJob processJob called, and handleFailedJob goes on to notify the scheduler.
CompleteLTrim(s) ==
    /\ tasks[s].pc = "cj_trim"
    /\ completed' = LTrim(completed, TrimStop)
    /\ IF ~InHandleFailedJob(s)
       THEN Return(s)
       ELSE /\ tasks' = [tasks EXCEPT ![s].pc = "hjc_read"]
            /\ UNCHANGED <<permits, handled>>
    /\ UNCHANGED <<target, faults, lastPoll, qj, delay, lastCall, now, jobs, schedules, executions, ready, processing, jobData, retrying,
                   nextQid, polls, loops, cancelled, ticker, schedHist>>

(***************************************************************************)
(* JobQueueService.FailJob, called by handleFailedJob.                     *)
(***************************************************************************)
FailSRem(s) ==
    /\ tasks[s].pc = "fj_srem"
    /\ processing' = processing \ {tasks[s].msg.id}
    /\ tasks' = [tasks EXCEPT ![s].pc = "fj_del"]
    /\ UNCHANGED <<target, faults, lastPoll, qj, delay, lastCall, now, jobs, schedules, executions, ready, jobData, retrying,
                   completed, nextQid, polls, loops, cancelled, permits, ticker,
                   schedHist, handled>>

\* DEL job_data:id; then the ShouldRetry branch.
FailDel(s) ==
    /\ tasks[s].pc = "fj_del"
    /\ jobData' = DelKey(jobData, tasks[s].msg.id)
    /\ tasks' = [tasks EXCEPT ![s].pc =
                    IF ShouldRetry(tasks[s].msg) THEN "fj_zadd" ELSE "cj_srem"]
    /\ UNCHANGED <<target, faults, lastPoll, qj, delay, lastCall, now, jobs, schedules, executions, ready, processing, retrying,
                   completed, nextQid, polls, loops, cancelled, permits, ticker,
                   schedHist, handled>>

\* IncrementRetry, CalculateRetryDelay of the retry job, ZADD job_queue:retrying;
\* then FailJob returns, to handleFailedJob or to processJob, which returns.
FailZAdd(s) ==
    /\ tasks[s].pc = "fj_zadd"
    /\ LET retryJob == IncrementRetry(tasks[s].msg, nextQid)
       IN retrying' = retrying \cup
                        {[score |-> now + Seconds(CalculateRetryDelay(retryJob)), msg |-> retryJob]}
    /\ nextQid' = nextQid + 1
    /\ IF ~InHandleFailedJob(s)
       THEN Return(s)
       ELSE /\ tasks' = [tasks EXCEPT ![s].pc = "hjc_read"]
            /\ UNCHANGED <<permits, handled>>
    /\ UNCHANGED <<target, faults, lastPoll, qj, delay, lastCall, now, jobs, schedules, executions, ready, processing, jobData,
                   completed, polls, loops, cancelled, ticker, schedHist>>

(***************************************************************************)
(* handleFailedJob: scheduler.HandleJobCompletion(job.JobID, false).       *)
(***************************************************************************)
\* GetJob and GetJobSchedule; without a row HandleJobCompletion returns an error.
CompletionRead(s) ==
    /\ tasks[s].pc = "hjc_read"
    /\ IF ~GetJob(tasks[s].msg.job) \/ schedules[tasks[s].msg.job] = NoRow
       THEN Return(s)
       ELSE /\ tasks' = [tasks EXCEPT ![s].pc = "hjc_write",
                                      ![s].hsched = schedules[tasks[s].msg.job]]
            /\ UNCHANGED <<permits, handled>>
    /\ UNCHANGED <<target, faults, lastPoll, qj, delay, lastCall, now, jobs, schedules, executions, ready, processing, jobData, retrying,
                   completed, nextQid, polls, loops, cancelled, ticker, schedHist>>

\* handleFailedExecution: DeleteJobSchedule or UpdateJobSchedule.
CompletionWrite(s) ==
    /\ tasks[s].pc = "hjc_write"
    /\ LET j == tasks[s].msg.job
           sch2 == handleFailedExecution(schedules, j, tasks[s].hsched)
       IN /\ schedules' = sch2
          /\ schedHist' = Stored(sch2, j, jobs[j].isRecurring /\ schedules[j] # NoRow)
    /\ Return(s)
    /\ UNCHANGED <<target, faults, lastPoll, qj, delay, lastCall, now, jobs, executions, ready, processing, jobData, retrying,
                   completed, nextQid, polls, loops, cancelled, ticker>>

(***************************************************************************)
(* The ticker goroutines of the worker processes (WorkerService.           *)
(* processRetryQueue): every 10 s ProcessRetryQueue, then                  *)
(* CleanupStaleJobs.  The runs of the processes' tickers are modelled one  *)
(* at a time: at "idle" the next run to start is a ProcessRetryQueue or a  *)
(* CleanupStaleJobs of some process.  The Dispatcher's own call of         *)
(* ProcessRetryQueue (in ProcessReadyJobs) runs beside them.               *)
(***************************************************************************)
\* ZRANGEBYSCORE job_queue:retrying 0 now.
PromoteStart ==
    /\ ticker.pc = "idle"
    /\ LET due == ZRangeByScore(retrying, now)
       IN ticker' = [IdleTicker EXCEPT !.pc = IF due = <<>> THEN "idle" ELSE "promote",
                                       !.due = due, !.snap = due]
    /\ UNCHANGED <<target, faults, lastPoll, qj, delay, lastCall, now, jobs, schedules, executions, ready, processing, jobData, retrying,
                   completed, nextQid, polls, loops, cancelled, permits, tasks,
                   schedHist, handled>>

\* For the next member of the snapshot: DeserializeQueueJob (on an error the
\* member is skipped), ZREM, then EnqueueJob.  "snap" is history: the snapshot
\* the run started with.
PromoteStep ==
    /\ ticker.pc = "promote"
    /\ LET z == Head(ticker.due)
       IN /\ IF DeserializeErr(z.msg)
             THEN UNCHANGED <<retrying, ready>>
             ELSE /\ retrying' = retrying \ {z}
                  /\ ready' = LPush(ready, z.msg)
          /\ ticker' = IF Tail(ticker.due) = <<>> THEN IdleTicker
                       ELSE [ticker EXCEPT !.due = Tail(ticker.due)]
    /\ UNCHANGED <<target, faults, lastPoll, qj, delay, lastCall, now, jobs, schedules, executions, processing, jobData,
                   completed, nextQid, polls, loops, cancelled, permits, tasks,
                   schedHist, handled>>

\* CleanupStaleJobs: SMEMBERS job_queue:processing.  "orphans" is history: the
\* members that had no job_data key when the snapshot was taken.
CleanupStart ==
    /\ ticker.pc = "idle"
    /\ ticker' = [ticker EXCEPT !.pc = IF processing = {} THEN "idle" ELSE "scan",
                                !.ids = processing,
                                !.orphans = {id \in processing : ~Exists(jobData, id)}]
    /\ UNCHANGED <<target, faults, lastPoll, qj, delay, lastCall, now, jobs, schedules, executions, ready, processing, jobData, retrying,
                   completed, nextQid, polls, loops, cancelled, permits, tasks,
                   schedHist, handled>>

\* A faulty variant of IsStale: the test of EXISTS inverted.
IsStaleInverted(id) == Exists(jobData, id)

\* exists == 0: the member is stale.
IsStale(id) == ~Exists(jobData, id)

\* For one member of the snapshot: EXISTS job_data:id, and SREM if it is stale.
\* "reaped" and "live" are history: the members that are out of processing after
\* the step, and those whose key existed.
CleanupStep ==
    /\ ticker.pc = "scan"
    /\ \E id \in ticker.ids :
          /\ processing' = IF IsStale(id) THEN processing \ {id} ELSE processing
          /\ ticker' = [ticker EXCEPT
                           !.ids = ticker.ids \ {id},
                           !.pc = IF ticker.ids = {id} THEN "report" ELSE "scan",
                           !.reaped = IF id \notin processing'
                                      THEN ticker.reaped \cup {id} ELSE ticker.reaped,
                           !.live = IF Exists(jobData, id)
                                    THEN ticker.live \cup {id} ELSE ticker.live]
    /\ UNCHANGED <<target, faults, lastPoll, qj, delay, lastCall, now, jobs, schedules, executions, ready, jobData, retrying,
                   completed, nextQid, polls, loops, cancelled, permits, tasks,
                   schedHist, handled>>

\* The snapshot is exhausted: CleanupStaleJobs logs the count and returns.
CleanupReturn ==
    /\ ticker.pc = "report"
    /\ ticker' = IdleTicker
    /\ UNCHANGED <<target, faults, lastPoll, qj, delay, lastCall, now, jobs, schedules, executions, ready, processing, jobData, retrying,
                   completed, nextQid, polls, loops, cancelled, permits, tasks,
                   schedHist, handled>>

\* Redis expires a job_data key (TTL 6 h).
ExpireJobData ==
    /\ \E id \in DOMAIN jobData : jobData' = DelKey(jobData, id)
    /\ UNCHANGED <<target, faults, lastPoll, qj, delay, lastCall, now, jobs, schedules, executions, ready, processing, retrying,
                   completed, nextQid, polls, loops, cancelled, permits, tasks, ticker,
                   schedHist, handled>>

(***************************************************************************)
(* Specifications.                                                         *)
(***************************************************************************)
ClaimLoop(l) ==
    \/ BRPop(l)
    \/ MoveSAdd(l)
    \/ MoveSetData(l)
    \/ Spawn(l)

Shutdown(l) ==
    \/ Stop(l[1])
    \/ LoopExit(l)
    \/ Requeue(l)

ProcessJob(s) ==
    \/ Guard(s)
    \/ Abandon(s)
    \/ CreateJobExecution(s)
    \/ UpdateRunning(s)
    \/ FinishCall(s)
    \/ CompleteSRem(s)
    \/ CompleteDel(s)
    \/ CompleteLPush(s)
    \/ CompleteLTrim(s)
    \/ FailSRem(s)
    \/ FailDel(s)
    \/ FailZAdd(s)
    \/ CompletionRead(s)
    \/ CompletionWrite(s)

Promoter ==
    \/ PromoteStart
    \/ PromoteStep

Reaper ==
    \/ CleanupStart
    \/ CleanupStep
    \/ CleanupReturn

\* The scheduler and the worker processes, running.
Next ==
    \/ Tick
    \/ ProcessReadyJobs
    \/ \E l \in Loops : ClaimLoop(l)
    \/ \E s \in Slots : ProcessJob(s)
    \/ Promoter

Spec == Init /\ [][Next]_vars

\* The same with the stale-claim reaper and key expiry, for one job definition.
InitReap ==
    /\ Init
    /\ jobs[1] = [schedule |-> 1, type |-> AT_LEAST_ONCE, isRecurring |-> FALSE,
                  maxRetryCount |-> 1, isActive |-> TRUE]

NextReap ==
    \/ Tick
    \/ ProcessReadyJobs
    \/ \E l \in Loops : ClaimLoop(l)
    \/ \E s \in Slots : ProcessJob(s)
    \/ Reaper
    \/ ExpireJobData

SpecReap == InitReap /\ [][NextReap]_vars

\* The same with worker shutdown, for one job definition.
NextStop ==
    \/ Tick
    \/ ProcessReadyJobs
    \/ \E l \in Loops : ClaimLoop(l)
    \/ \E l \in Loops : Shutdown(l)
    \/ \E s \in Slots : ProcessJob(s)

SpecStop == InitReap /\ [][NextStop]_vars

\* The completion handler alone, called on any table of schedules.
JobRowsAny ==
    [schedule : {1, 2}, type : JobTypes, isRecurring : BOOLEAN, maxRetryCount : {0},
     isActive : BOOLEAN]

InitCompletion ==
    /\ InitCommon
    /\ jobs \in [JobIds -> JobRowsAny \cup {NoJob}]
    /\ schedules \in [JobIds -> {NoRow} \cup (0..MaxTime)]
    /\ \A j \in JobIds : jobs[j] = NoJob => schedules[j] = NoRow
    /\ schedHist = [j \in JobIds |-> IF schedules[j] = NoRow THEN <<>> ELSE <<schedules[j]>>]

NextCompletion ==
    \E j \in JobIds, success \in BOOLEAN :
        /\ schedules[j] <= MaxTime
        /\ CallHandleJobCompletion(j, success)

SpecCompletion == InitCompletion /\ [][NextCompletion]_vars

(***************************************************************************)
(* Properties.                                                             *)
(***************************************************************************)
ExecutionsOf(j) == {i \in DOMAIN executions : executions[i].job = j}

Firings(j) == {executions[i].firing : i \in ExecutionsOf(j)}

ReadyIds == {ready[i].id : i \in DOMAIN ready}

RetryingIds == {z.msg.id : z \in retrying}

\* C1: single-flight.  For every job, at most one job_executions row is SCHEDULED
\* or RUNNING.
SingleFlight ==
    \A j \in JobIds : Cardinality(GetJobExecutionInProgress(j)) <= 1

\* C2: duplicate dispatch collapses.  For every job and every firing (one value of
\* next_execution_time), at most one job_executions row comes from a message the
\* Dispatcher enqueued for that firing (retry_count 0), however many such messages
\* the polls put in ready and whenever they are claimed.
DuplicateDispatchCollapses ==
    \A j \in JobIds : \A f \in Firings(j) :
        Cardinality({i \in ExecutionsOf(j) :
                        executions[i].firing = f /\ executions[i].rc = 0}) <= 1

\* C3: retry bound.  For an AT_LEAST_ONCE job with max_retry_count M, the FAILED
\* rows of one firing number at most M + 1 and have retry_count in 0..M.
RetryBound ==
    \A j \in JobIds : jobs[j].type = AT_LEAST_ONCE =>
        \A f \in Firings(j) :
            LET failed == {i \in ExecutionsOf(j) : executions[i].firing = f
                                                   /\ executions[i].status = StatusFailed}
            IN /\ Cardinality(failed) <= jobs[j].maxRetryCount + 1
               /\ \A i \in failed : executions[i].rc \in 0..jobs[j].maxRetryCount

\* C4: AT_MOST_ONCE.  For an AT_MOST_ONCE job, at most one job_executions row is
\* created per firing and no message of the job is in retrying.
AtMostOnce ==
    \A j \in JobIds : jobs[j].type = AT_MOST_ONCE =>
        /\ \A f \in Firings(j) :
              Cardinality({i \in ExecutionsOf(j) : executions[i].firing = f}) <= 1
        /\ \A z \in retrying : z.msg.job # j

\* C5: monotone scheduling.  For a recurring job, every value stored in
\* next_execution_time is strictly greater than every value stored before it.
MonotoneScheduling ==
    \A j \in JobIds : jobs[j].isRecurring =>
        \A a, b \in DOMAIN schedHist[j] : a < b => schedHist[j][a] < schedHist[j][b]

\* C6: lane disjointness.  A queue id is in at most one of ready, processing and
\* retrying.
LaneDisjointness ==
    /\ ReadyIds \cap processing = {}
    /\ ReadyIds \cap RetryingIds = {}
    /\ processing \cap RetryingIds = {}

\* The shutdown case of lane disjointness: the message a claim loop held when it
\* was cancelled is back in ready while its id is still in processing.
RequeuedClaim ==
    \E l \in Loops : loops[l].pc = "stopped" /\ ReadyIds \cap processing # {}

\* C7: no orphan claim.  When a run of CleanupStaleJobs ends, every queue id that
\* was in processing without its job_data key when the run read processing
\* was out of processing when the run had dealt with it, or its job_data key had
\* been written again (by a new claim of the id) when the run looked for it.
NoOrphanClaim ==
    ticker.pc = "report" => ticker.orphans \subseteq (ticker.reaped \cup ticker.live)

\* C7's case: a run of CleanupStaleJobs has ended that found the claim of a
\* running attempt without its job_data key (the key had expired) and removed
\* the id from processing.
OrphanReaped ==
    /\ ticker.pc = "report"
    /\ \E s \in Slots :
          /\ tasks[s].pc \in {"guard", "create", "run", "call"}
          /\ tasks[s].msg.id \in ticker.orphans \cap ticker.reaped
          /\ tasks[s].msg.id \notin processing

\* C8 as claimed: the completed list holds at most the cap.
CompletedCapped == Len(completed) <= CompletedCap

\* C8 as amended: the completed list holds at most the cap plus one entry for each
\* CompleteJob that has pushed its result and not yet trimmed the list.
Trimming == {s \in Slots : tasks[s].pc = "cj_trim"}

CompletedCappedAfterTrim == Len(completed) <= CompletedCap + Cardinality(Trimming)

\* C8's case: a CompleteJob has pushed onto a full list and has not trimmed it yet.
CompletedOverCap == Len(completed) > CompletedCap /\ Trimming # {}

\* C9 as claimed: two calls of HandleJobCompletion in a row with the same
\* arguments leave the job_schedules table as the first call left it.
IdempotentCompletion == lastCall.n = 2 => schedules = lastCall.once

\* C9 as amended: the same, for a non-recurring job.
IdempotentCompletionNonRecurring ==
    (lastCall.n = 2 /\ ~jobs[lastCall.job].isRecurring) => schedules = lastCall.once

\* C9's case: the first of two calls deleted the row of a non-recurring job.
CompletedTwice ==
    /\ lastCall.n = 2
    /\ ~jobs[lastCall.job].isRecurring
    /\ schedHist[lastCall.job] # <<>>
    /\ schedules[lastCall.job] = NoRow

\* C10: completion after success.  Once processJob has returned from an attempt
\* that ended in SUCCESS, the completion protocol has run: the row of a
\* non-recurring job is deleted and that of a recurring job no longer holds the
\* firing that was executed.
CompletionAfterSuccess ==
    \A i \in handled : executions[i].status = StatusSuccess =>
        LET j == executions[i].job
        IN IF jobs[j].isRecurring
           THEN schedules[j] # NoRow /\ schedules[j] > executions[i].firing
           ELSE schedules[j] = NoRow

\* C11: completion after failure only when terminal.  handleFailedJob calls
\* HandleJobCompletion(job, false) only for a message that is not retried, and
\* while a retry message is in retrying the job's job_schedules row still holds
\* the firing the message was dispatched for.
CompletionOnlyWhenTerminal ==
    /\ \A s \in Slots :
          tasks[s].pc \in {"hjc_read", "hjc_write"} => ~ShouldRetry(tasks[s].msg)
    /\ \A z \in retrying : schedules[z.msg.job] = z.msg.sched

\* C12: HandleJobCompletion on an active job with a job_schedules row deletes the
\* row of a non-recurring job and moves that of a recurring job to the next
\* firing after the stored one, whatever success and the job's type are, and
\* leaves the other rows alone.
HandleJobCompletionOutcome ==
    [][\A j \in JobIds :
          (lastCall' # lastCall /\ lastCall'.job = j /\ jobs[j].isActive
             /\ schedules[j] # NoRow) =>
              /\ schedules'[j] =
                     IF jobs[j].isRecurring
                     THEN ((schedules[j] \div jobs[j].schedule) + 1) * jobs[j].schedule
                     ELSE NoRow
              /\ \A k \in JobIds \ {j} : schedules'[k] = schedules[k]]_vars

\* C12's case: a call with success = false has advanced the row of an active
\* recurring AT_MOST_ONCE job.
FailureAdvancedRecurring ==
    /\ lastCall.n = 1
    /\ ~lastCall.success
    /\ jobs[lastCall.job].isActive
    /\ jobs[lastCall.job].isRecurring
    /\ jobs[lastCall.job].type = AT_MOST_ONCE
    /\ Len(schedHist[lastCall.job]) = 2
    /\ schedules[lastCall.job] = schedHist[lastCall.job][2]

\* C13: ShouldRetry is true exactly for an AT_LEAST_ONCE message with
\* retry_count < max_retry_count, and FailJob schedules a retry only then.
QueueJobs ==
    [id : {1}, job : {1}, rc : 0..(MaxRetry + 1), max : 0..(MaxRetry + 1),
     type : JobTypes, sched : {1}]

ShouldRetryExact ==
    /\ \A m \in QueueJobs : ShouldRetry(m) <=> (m.type = AT_LEAST_ONCE /\ m.rc < m.max)
    /\ \A s \in Slots :
          tasks[s].pc = "fj_zadd" =>
              tasks[s].msg.type = AT_LEAST_ONCE /\ tasks[s].msg.rc < tasks[s].msg.max
    /\ \A z \in retrying : z.msg.type = AT_LEAST_ONCE /\ z.msg.rc <= z.msg.max

\* C13's case: FailJob found ShouldRetry true and is about to schedule the retry.
RetryDecided ==
    \E s \in Slots : tasks[s].pc = "fj_zadd" /\ ShouldRetry(tasks[s].msg)

\* C14: retry delay schedule.  The k-th retry of a firing enters retrying with
\* score = the time of FailJob + min(2^(k-1), 300).
RetryDelaySchedule ==
    [][\A z \in retrying' \ retrying :
          z.score = now + (IF Pow2(z.msg.rc - 1) > 300 THEN 300 ELSE Pow2(z.msg.rc - 1))]_vars

\* C17 as claimed: a job_executions row is inserted SCHEDULED, its status goes
\* from SCHEDULED to RUNNING and from RUNNING to SUCCESS or FAILED and in no
\* other way, and nothing else of the row changes.
StatusRank(st) ==
    IF st = StatusScheduled THEN 0 ELSE IF st = StatusRunning THEN 1 ELSE 2

RowKept(i) ==
    [executions'[i] EXCEPT !.status = executions[i].status] = executions[i]

ExecutionStateMachine ==
    [][/\ Len(executions') >= Len(executions)
       /\ \A i \in DOMAIN executions' \ DOMAIN executions :
             executions'[i].status = StatusScheduled
       /\ \A i \in DOMAIN executions :
             \/ executions'[i] = executions[i]
             \/ /\ RowKept(i)
                /\ StatusRank(executions'[i].status) = StatusRank(executions[i].status) + 1]_vars

\* C17 as amended: the status of a row only moves forward in the order SCHEDULED,
\* RUNNING, {SUCCESS, FAILED}, and a row that is SUCCESS or FAILED never changes.
ExecutionForwardOnly ==
    [][/\ Len(executions') >= Len(executions)
       /\ \A i \in DOMAIN executions' \ DOMAIN executions :
             executions'[i].status = StatusScheduled
       /\ \A i \in DOMAIN executions :
             \/ executions'[i] = executions[i]
             \/ /\ RowKept(i)
                /\ StatusRank(executions'[i].status) > StatusRank(executions[i].status)]_vars

\* C17's case: processJob has returned from an attempt whose row is SUCCESS or
\* FAILED while another row of the job is on its way.
ExecutionFinished ==
    \E i \in handled, k \in DOMAIN executions :
        /\ executions[i].status \in {StatusSuccess, StatusFailed}
        /\ executions[k].status \in {StatusScheduled, StatusRunning}

(***************************************************************************)
(* Further specifications.                                                 *)
(***************************************************************************)
\* The Dispatcher alone on any tables of jobs and schedules: a schedule row
\* belongs to a job row, active or not.
JobRowsHarvest ==
    [schedule : {1, 2}, type : {AT_MOST_ONCE}, isRecurring : {FALSE}, maxRetryCount : {0},
     isActive : BOOLEAN]

InitHarvest ==
    /\ InitCommon
    /\ jobs \in [JobIds -> JobRowsHarvest \cup {NoJob}]
    /\ schedules \in [JobIds -> {NoRow} \cup (0..MaxTime)]
    /\ \A j \in JobIds : jobs[j] = NoJob => schedules[j] = NoRow
    /\ schedHist = [j \in JobIds |-> IF schedules[j] = NoRow THEN <<>> ELSE <<schedules[j]>>]

NextHarvest ==
    \/ Tick
    \/ ProcessReadyJobs

SpecHarvest == InitHarvest /\ [][NextHarvest]_vars

\* The admin API and the Dispatcher, from empty tables.
InitCreate ==
    /\ InitCommon
    /\ jobs = [j \in JobIds |-> NoJob]
    /\ schedules = [j \in JobIds |-> NoRow]
    /\ schedHist = [j \in JobIds |-> <<>>]

NextCreate ==
    \/ Tick
    \/ CreateJob
    \/ ProcessReadyJobs

SpecCreate == InitCreate /\ [][NextCreate]_vars

\* The worker processes from before their first Start(), for one job definition.
InitStart ==
    /\ InitQueues
    /\ loops = [l \in Loops |-> NotStarted]
    /\ jobs = [j \in JobIds |->
                  IF j = 1 THEN [schedule |-> 1, type |-> AT_LEAST_ONCE, isRecurring |-> FALSE,
                                 maxRetryCount |-> 1, isActive |-> TRUE]
                  ELSE NoJob]
    /\ schedules = [j \in JobIds |-> IF j = 1 THEN 1 ELSE NoRow]
    /\ schedHist = [j \in JobIds |-> IF j = 1 THEN <<1>> ELSE <<>>]

NextStart ==
    \/ Tick
    \/ ProcessReadyJobs
    \/ \E p \in Procs : Start(p)
    \/ \E l \in Loops : ClaimLoop(l)
    \/ \E s \in Slots : ProcessJob(s)

SpecStart == InitStart /\ [][NextStart]_vars

\* The scheduler and the worker processes running fairly, for one job definition:
\* the clock advances, the tickers keep running ProcessRetryQueue, and every
\* goroutine that can take a step takes one.
SpecLive ==
    /\ InitReap
    /\ [][Next]_vars
    /\ WF_vars(Tick)
    /\ WF_vars(Promoter)
    /\ \A l \in Loops : WF_vars(ClaimLoop(l))
    /\ \A s \in Slots : WF_vars(ProcessJob(s))

\* C15: at-least-once progress.  A retry message with retry_count k that is in
\* retrying (with a score the clock reaches) leads to a job_executions row with
\* retry_count k for the same firing.
RetryScheduled(j, f, k) ==
    \E z \in retrying :
        z.msg.job = j /\ z.msg.sched = f /\ z.msg.rc = k /\ z.score <= MaxTime

RetryExecuted(j, f, k) ==
    \E i \in DOMAIN executions :
        executions[i].job = j /\ executions[i].firing = f /\ executions[i].rc = k

\* A retry of the firing waits for a time the model's clock does not reach; it
\* counts as one that will be executed.
RetryBeyondClock(j, f, k) ==
    \E z \in retrying :
        z.msg.job = j /\ z.msg.sched = f /\ z.msg.rc = k /\ z.score > MaxTime

AtLeastOnceProgress ==
    \A j \in JobIds, f \in 1..MaxTime, k \in 1..MaxRetry :
        RetryScheduled(j, f, k) ~> (RetryExecuted(j, f, k) \/ RetryBeyondClock(j, f, k))

\* C16: harvest filter.  The messages a poll enqueues are for jobs that are
\* active and have a job_schedules row that is due when the poll runs; they are
\* at most batchSize, and no two of them are for the same job.
Harvested == {ready'[i] : i \in {n \in DOMAIN ready' : ready'[n].id >= nextQid}}

NoStartAfterStop ==
    [][\A s \in Slots :
          (cancelled[s[1]] /\ tasks[s].pc = "idle") => tasks'[s].pc = "idle"]_vars

\* C19: Start() is idempotent.  A worker process has at most one claim loop,
\* however often Start() is called.
StartIdempotent ==
    \A p \in Procs : Cardinality({l \in Loops : l[1] = p /\ loops[l].pc # "none"}) <= 1

\* C20: atomic job creation.  An active jobs row exists exactly when the job has
\* a job_schedules row.
AtomicJobCreation ==
    \A j \in JobIds : jobs[j].isActive <=> schedules[j] # NoRow

(***************************************************************************)
(* The backoff on its own: IncrementRetry and CalculateRetryDelay applied  *)
(* to a QueueJob of any retry count, as FailJob applies them (job_queue.go *)
(* 149-150).                                                               *)
(***************************************************************************)
MaxBackoffRetry == 66

InitDelay ==
    /\ InitLanes
    /\ loops = [l \in Loops |-> NotStarted]
    /\ jobs = [j \in JobIds |-> NoJob]
    /\ schedules = [j \in JobIds |-> NoRow]
    /\ schedHist = [j \in JobIds |-> <<>>]
    /\ \E n \in 0..MaxBackoffRetry :
          qj = [id |-> 1, job |-> 1, rc |-> n, max |-> MaxBackoffRetry,
                type |-> AT_LEAST_ONCE, sched |-> 1]
    /\ delay = NoDelay
    /\ faults = FALSE
    /\ target = AnyTarget

CallIncrementRetry ==
    /\ ShouldRetry(qj)
    /\ qj' = IncrementRetry(qj, qj.id + 1)
    /\ delay' = NoDelay
    /\ UNCHANGED <<target, faults, lastPoll, lastCall, now, jobs, schedules, executions, ready, processing, jobData,
                   retrying, completed, nextQid, polls, loops, cancelled, permits, tasks,
                   ticker, schedHist, handled>>

CallCalculateRetryDelay ==
    /\ qj # NoMsg
    /\ delay = NoDelay
    /\ delay' = CalculateRetryDelay(qj)
    /\ UNCHANGED <<target, faults, lastPoll, qj, lastCall, now, jobs, schedules, executions, ready, processing,
                   jobData, retrying, completed, nextQid, polls, loops, cancelled, permits,
                   tasks, ticker, schedHist, handled>>

NextDelay ==
    \/ CallIncrementRetry
    \/ CallCalculateRetryDelay

SpecDelay == InitDelay /\ [][NextDelay]_vars

\* C21: bounded, monotone backoff.  Whatever the retry count, the delay
\* CalculateRetryDelay returns is at least one second and at most five minutes,
\* and the delay of the next retry count is not smaller.
BoundedMonotoneBackoff ==
    delay # NoDelay =>
        /\ ~Less(delay, Second)
        /\ ~Less(MaxDelay, delay)
        /\ ~Less(CalculateRetryDelay(IncrementRetry(qj, qj.id)), delay)

\* C22: the Dispatcher's single-flight gate.  A poll enqueues no message for a
\* job that has a job_executions row in status SCHEDULED or RUNNING.
DispatcherGate ==
    [][polls' = polls + 1 =>
          \A m \in Harvested : GetJobExecutionInProgress(m.job) = {}]_vars

\* C23: a poll writes no row.  A step of ProcessReadyJobs leaves the jobs,
\* job_schedules and job_executions tables as they were, so that every job it
\* enqueued a message for is still due after it.
PollLeavesRows ==
    [][(polls' # polls \/ lastPoll' # lastPoll) =>
          /\ jobs' = jobs
          /\ schedules' = schedules
          /\ executions' = executions
          /\ \A m \in Harvested : m.job \in DueJobs']_vars

\* C23's case: two polls have harvested the same row, which is still due.
HarvestedAgain ==
    /\ polls = 2
    /\ \E a, b \in DOMAIN ready :
          /\ a # b
          /\ ready[a].job = ready[b].job
          /\ ready[a].job \in DueJobs

(***************************************************************************)
(* The Dispatcher alone, with a store whose query may fail and a broker    *)
(* whose LPUSH may fail.                                                   *)
(***************************************************************************)
InitPoll ==
    /\ InitLanes
    /\ loops = [l \in Loops |-> IF l[2] = 1 THEN IdleLoop ELSE NotStarted]
    /\ qj = NoMsg
    /\ delay = NoDelay
    /\ faults = TRUE
    /\ target = AnyTarget
    /\ jobs \in [JobIds -> JobRowsHarvest \cup {NoJob}]
    /\ schedules \in [JobIds -> {NoRow} \cup (0..MaxTime)]
    /\ \A j \in JobIds : jobs[j] = NoJob => schedules[j] = NoRow
    /\ schedHist = [j \in JobIds |-> IF schedules[j] = NoRow THEN <<>> ELSE <<schedules[j]>>]

SpecPoll == InitPoll /\ [][NextHarvest]_vars

\* C24: the Dispatcher's failures.  A poll whose GetJobsReadyForExecution fails
\* returns the error and changes no lane and no row; a poll whose EnqueueJob
\* fails for a row leaves that job_schedules row as it was, and the job still
\* due for the next poll.
PollFailures ==
    [][/\ (lastPoll'.err /\ (polls' # polls \/ lastPoll' # lastPoll)) =>
              /\ polls' = polls
              /\ <<ready, processing, jobData, retrying, completed>>' =
                     <<ready, processing, jobData, retrying, completed>>
              /\ <<jobs, schedules, executions>>' = <<jobs, schedules, executions>>
       /\ (polls' = polls + 1) =>
              \A j \in lastPoll'.failed :
                  /\ schedules'[j] = schedules[j]
                  /\ j \in DueJobs'
                  /\ \A m \in Harvested : m.job # j]_vars

\* C24's case: the one poll that harvested a row failed to enqueue it (ready is
\* empty and nothing claims in this specification), the row is still due, and
\* the query of the poll after it failed.
PollFailuresSeen ==
    /\ lastPoll.err
    /\ polls = 1
    /\ ready = <<>>
    /\ DueJobs # {}

\* C25: the claim is atomic.  In every state, that is, whenever another process
\* looks, a message a claim loop has popped from ready has its id in processing
\* and its body under its job_data key, and is not in ready.
ClaimAtomic ==
    \A l \in Loops :
        loops[l].pc \in {"sadd", "setdata", "acquire"} =>
            /\ loops[l].msg.id \notin ReadyIds
            /\ loops[l].msg.id \in processing
            /\ Exists(jobData, loops[l].msg.id)
            /\ jobData[loops[l].msg.id] = loops[l].msg

\* C26: complete.  When CompleteJob returns (its LTRIM was the last command),
\* the id is not in processing, the job_data key does not exist and the result
\* is the newest entry of completed.
CompleteJobPostcondition ==
    [][\A s \in Slots :
          (tasks[s].pc = "cj_trim" /\ tasks'[s].pc # "cj_trim") =>
              /\ tasks[s].msg.id \notin processing'
              /\ ~Exists(jobData', tasks[s].msg.id)
              /\ completed' # <<>>
              /\ completed'[1] = QueueJobResult(s)]_vars

RetryBodies ==
    {[id |-> i, job |-> 1, rc |-> 1, max |-> 1, type |-> AT_LEAST_ONCE, sched |-> 1] :
        i \in JobIds} \cup {NotJSON}

InitRetry ==
    /\ InitQueues
    /\ loops = [l \in Loops |-> NotStarted]
    /\ jobs = [j \in JobIds |-> NoJob]
    /\ schedules = [j \in JobIds |-> NoRow]
    /\ schedHist = [j \in JobIds |-> <<>>]

\* ZADD job_queue:retrying score member, by the test's setup.
ZAdd ==
    /\ ticker.pc = "idle"
    /\ ready = <<>>
    /\ \E score \in 0..MaxTime, body \in RetryBodies :
          /\ \A z \in retrying : z.msg # body
          /\ retrying' = retrying \cup {[score |-> score, msg |-> body]}
    /\ UNCHANGED <<target, faults, lastPoll, qj, delay, lastCall, now, jobs, schedules, executions,
                   ready, processing, jobData, completed, nextQid, polls, loops, cancelled,
                   permits, tasks, ticker, schedHist, handled>>

NextRetry ==
    \/ Tick
    \/ ZAdd
    \/ Promoter

SpecRetry == InitRetry /\ [][NextRetry]_vars

\* C28: promotion moves every due retry.  When a run of ProcessRetryQueue
\* returns, no member of the snapshot it started with (the members with score <=
\* now) is in retrying, and each of them has been pushed to ready.
PromotionComplete ==
    [][(ticker.pc = "promote" /\ ticker'.pc = "idle") =>
          \A i \in DOMAIN ticker.snap :
              /\ ticker.snap[i] \notin retrying'
              /\ \E k \in DOMAIN ready' : ready'[k] = ticker.snap[i].msg]_vars

\* The number of entries of a list that are the message m.
Count(list, m) == Cardinality({i \in DOMAIN list : list[i] = m})

\* C29: promotion is atomic.  With the ticker's and the Dispatcher's runs of
\* ProcessRetryQueue interleaved, a retry message is pushed to ready only in a
\* step that takes its member out of retrying, every member taken out of retrying
\* is pushed once, and no retry message is in ready twice.
PromotionExactlyOnce ==
    [][/\ \A i \in DOMAIN ready' :
             (ready'[i].rc >= 1 /\ Count(ready', ready'[i]) > Count(ready, ready'[i])) =>
                 /\ \E z \in retrying \ retrying' : z.msg = ready'[i]
                 /\ Count(ready', ready'[i]) = 1
       /\ \A z \in retrying \ retrying' : Count(ready', z.msg) = Count(ready, z.msg) + 1]_vars

(***************************************************************************)
(* The scheduler and the worker processes with their tickers' promotion    *)
(* runs, the worker processes being stopped at any time.                   *)
(***************************************************************************)
NextPromoteStop ==
    \/ NextStop
    \/ Promoter

SpecPromoteStop == InitReap /\ [][NextPromoteStop]_vars

\* The retry messages a step puts in ready.
RetryPushed == {ready'[i] : i \in {n \in DOMAIN ready' :
                                       /\ ready'[n].rc >= 1
                                       /\ Count(ready', ready'[n]) > Count(ready, ready'[n])}}

\* The step is one of ProcessRetryQueue, run by the ticker or by a poll, and the
\* member of m it read from retrying has a score that is not after now.
Promoted(m) ==
    /\ (ticker.pc = "promote" /\ ticker' # ticker) \/ polls' = polls + 1
    /\ \E z \in retrying \cup {ticker.snap[i] : i \in DOMAIN ticker.snap} :
          z.msg = m /\ z.score <= now

\* C30 as claimed: no early retry.  A retry message enters ready only in a step
\* of ProcessRetryQueue, at a time that is not before its score in retrying.
NoEarlyRetry ==
    [][\A m \in RetryPushed : Promoted(m)]_vars

\* C30, amended: a retry message enters ready in a step of ProcessRetryQueue, at
\* a time that is not before its score, or when a claim loop that had claimed it
\* (from ready, hence after its score) puts it back because the worker is stopped.
NoEarlyRetryButRequeue ==
    [][\A m \in RetryPushed :
          \/ Promoted(m)
          \/ \E l \in Loops :
                /\ loops[l].pc = "acquire"
                /\ loops[l].msg = m
                /\ cancelled[l[1]]
                /\ loops'[l].pc = "stopped"]_vars

\* C30's case: a retry message is back in ready, put there by a claim loop that
\* was stopped (its id is still in processing).
RetryRequeued ==
    /\ \E l \in Loops : loops[l].pc = "stopped"
    /\ \E i \in DOMAIN ready : ready[i].rc >= 1 /\ ready[i].id \in processing

\* The processJob goroutines of worker process p that have not returned.
InFlight(p) == {s \in Slots : s[1] = p /\ tasks[s].pc # "idle"}

\* C31: pool bound.  In every worker process the processJob executions in flight
\* number at most the capacity of workerPool, and the permits held are as many as
\* the executions in flight: each holds the one permit its claim loop acquired
\* for it, and gives it back when it returns.
PoolBound ==
    \A p \in Procs :
        /\ Cardinality(InFlight(p)) <= PoolSize
        /\ permits[p] = Cardinality(InFlight(p))

\* C31's case: the pool of a process is full and its claim loop waits for a
\* permit with a claimed message, after an execution of the process has returned.
PoolFull ==
    \E l \in Loops :
        /\ loops[l].pc = "acquire"
        /\ permits[l[1]] = PoolSize
        /\ InFlight(l[1]) # {}
        /\ handled # {}

\* C32: guard abandon.  When processJob returns because the guard found an
\* execution of the job in progress, the message's id is out of processing and
\* its job_data key is deleted; no job_executions row was created, and retrying
\* and completed are as they were.
GuardAbandon ==
    [][\A s \in Slots :
          (tasks[s].pc = "abandon" /\ tasks'[s].pc = "idle") =>
              /\ tasks[s].msg.id \notin processing'
              /\ ~Exists(jobData', tasks[s].msg.id)
              /\ tasks[s].eid = 0
              /\ executions' = executions
              /\ retrying' = retrying
              /\ completed' = completed]_vars

(***************************************************************************)
(* The scheduler and the worker processes with a recurring AT_LEAST_ONCE   *)
(* job of max_retry_count 2, whose target fails twice and then succeeds    *)
(* (the retry scenario of the end-to-end tests).  The clock runs until the *)
(* second retry is due: 2 s and then 4 s after the failures.               *)
(***************************************************************************)
MaxChainTime == 7

InitChain ==
    /\ InitLanes
    /\ qj = NoMsg
    /\ delay = NoDelay
    /\ faults = FALSE
    /\ target = 0
    /\ loops = [l \in Loops |-> IF l[2] = 1 THEN IdleLoop ELSE NotStarted]
    /\ jobs = [j \in JobIds |->
                  IF j = 1 THEN [schedule |-> 1, type |-> AT_LEAST_ONCE, isRecurring |-> TRUE,
                                 maxRetryCount |-> 2, isActive |-> TRUE]
                  ELSE NoJob]
    /\ schedules = [j \in JobIds |-> IF j = 1 THEN 1 ELSE NoRow]
    /\ schedHist = [j \in JobIds |-> IF j = 1 THEN <<1>> ELSE <<>>]

NextChain ==
    \/ Advance(MaxChainTime)
    \/ ProcessReadyJobs
    \/ \E l \in Loops : ClaimLoop(l)
    \/ \E s \in Slots : ProcessJob(s)
    \/ Promoter

SpecChain == InitChain /\ [][NextChain]_vars

\* The status and retry_count of the first n job_executions rows, in creation order.
Recorded(n) == [i \in 1..n |-> <<executions[i].status, executions[i].rc>>]

\* C33: retry chain order.  Once the target has failed twice and then succeeded,
\* the first three job_executions rows of the job are, in creation order,
\* FAILED with retry_count 0, FAILED with retry_count 1 and SUCCESS with
\* retry_count 2.
RetryChainOrder ==
    target >= 3 =>
        /\ Len(executions) >= 3
        /\ Recorded(3) = <<<<StatusFailed, 0>>, <<StatusFailed, 1>>, <<StatusSuccess, 2>>>>

\* The chain as claimed, which the program also produces.
RetryChainAsClaimed ==
    /\ target = 3
    /\ Len(executions) = 3
    /\ Recorded(3) = <<<<StatusFailed, 0>>, <<StatusFailed, 1>>, <<StatusSuccess, 2>>>>

\* C34: completion on a finalized job is a no-op.  A call of HandleJobCompletion
\* for a job that has no row or is inactive, or that has no job_schedules row,
\* changes no jobs, job_schedules or job_executions row and no lane of the broker.
CompletionNoOp ==
    [][\A j \in JobIds :
          (lastCall' # lastCall /\ lastCall'.job = j
             /\ (jobs[j] = NoJob \/ ~jobs[j].isActive \/ schedules[j] = NoRow)) =>
              /\ <<jobs, schedules, executions>>' = <<jobs, schedules, executions>>
              /\ <<ready, processing, jobData, retrying, completed>>' =
                     <<ready, processing, jobData, retrying, completed>>]_vars

\* C34's case: HandleJobCompletion has been called twice on an inactive job that
\* has a job_schedules row, beside a job that has no row at all.
FinalizedCompleted ==
    /\ lastCall.n = 2
    /\ jobs[lastCall.job] # NoJob
    /\ ~jobs[lastCall.job].isActive
    /\ schedules[lastCall.job] # NoRow
    /\ \E k \in JobIds : jobs[k] = NoJob

(***************************************************************************)
(* The scheduler and the worker processes with a Metadata Store whose      *)
(* statements may fail, for one job definition.                            *)
(***************************************************************************)
InitFault ==
    /\ InitLanes
    /\ qj = NoMsg
    /\ delay = NoDelay
    /\ faults = TRUE
    /\ target = AnyTarget
    /\ loops = [l \in Loops |-> IF l[2] = 1 THEN IdleLoop ELSE NotStarted]
    /\ jobs = [j \in JobIds |->
                  IF j = 1 THEN [schedule |-> 1, type |-> AT_LEAST_ONCE, isRecurring |-> FALSE,
                                 maxRetryCount |-> 1, isActive |-> TRUE]
                  ELSE NoJob]
    /\ schedules = [j \in JobIds |-> IF j = 1 THEN 1 ELSE NoRow]
    /\ schedHist = [j \in JobIds |-> IF j = 1 THEN <<1>> ELSE <<>>]

SpecFault == InitFault /\ [][Next]_vars

\* The positions of a processJob inside FailJob (and the CompleteJob it calls).
InFailJob == {"fj_srem", "fj_del", "fj_zadd", "cj_srem", "cj_del", "cj_push", "cj_trim"}

\* C35: a failed CreateJobExecution.  When CreateJobExecution fails, processJob
\* calls FailJob with the message and returns: no job_executions row is
\* inserted, the HTTP call is not made, HandleJobCompletion is not called (no
\* job_schedules row changes), and the permit is given back at the return.
CreateFailure ==
    [][\A s \in Slots :
          /\ (tasks[s].pc = "create" /\ tasks'[s].pc # "run" /\ tasks'[s] # tasks[s]) =>
                 /\ tasks'[s].pc = "fj_srem"
                 /\ tasks'[s].msg = tasks[s].msg
                 /\ tasks'[s].eid = 0
                 /\ executions' = executions
          /\ (tasks[s].error = ErrCreateExecution /\ tasks'[s] # tasks[s]) =>
                 /\ tasks[s].pc \in InFailJob
                 /\ tasks'[s].pc \in InFailJob \cup {"idle"}
                 /\ tasks[s].eid = 0
                 /\ executions' = executions
                 /\ schedules' = schedules
                 /\ target' = target
                 /\ tasks'[s].pc = "idle" => permits'[s[1]] = permits[s[1]] - 1]_vars

\* C35's case: a processJob whose CreateJobExecution failed is at the last
\* command of FailJob, no row having been inserted for any attempt.
CreateFailed ==
    \E s \in Slots :
        /\ tasks[s].error = ErrCreateExecution
        /\ tasks[s].pc \in {"fj_zadd", "cj_trim"}
        /\ executions = <<>>
        /\ permits[s[1]] = 1

\* C36: FIFO ready lane.  A claim takes the entry of ready that has been there
\* longest: every entry is added at the head, before those already there, and
\* BRPOP returns the last one and leaves the others in their order.
FifoReady ==
    [][/\ \A l \in Loops :
             (loops[l].pc = "dequeue" /\ loops'[l].pc = "sadd") =>
                 /\ loops'[l].msg = ready[Len(ready)]
                 /\ ready' = SubSeq(ready, 1, Len(ready) - 1)
       /\ Len(ready') > Len(ready) =>
             SubSeq(ready', Len(ready') - Len(ready) + 1, Len(ready')) = ready]_vars

\* C36's case: of two messages the polls enqueued, a claim loop holds the first
\* and the second is still in ready.
ClaimedOldest ==
    \E l \in Loops :
        /\ loops[l].pc = "sadd"
        /\ loops[l].msg.rc = 0
        /\ ready # <<>>
        /\ \A i \in DOMAIN ready : ready[i].rc = 0 /\ ready[i].id > loops[l].msg.id

\* C37: exclusive delivery.  With several claim loops in DequeueJob at once, a
\* claim loop gets a message only from BRPOP, and the BRPOP that returns an entry
\* of ready to one loop takes that one entry out of ready and gives it to no
\* other loop: an entry is returned once.
ExclusiveDelivery ==
    [][\A l \in Loops :
          (loops'[l].msg # loops[l].msg /\ loops'[l].msg # NoMsg) =>
              /\ loops[l].pc = "dequeue"
              /\ Len(ready') = Len(ready) - 1
              /\ Count(ready', loops'[l].msg) = Count(ready, loops'[l].msg) - 1
              /\ \A k \in Loops \ {l} : loops'[k] = loops[k]]_vars

\* C37's case: the two claim loops of one worker process (Start() was called
\* twice) each hold a message BRPOP returned to them, the two entries the polls
\* had put in ready.
DeliveredToEach ==
    \E l, k \in Loops :
        /\ l[1] = k[1] /\ l # k
        /\ \A x \in {l, k} : loops[x].pc \in {"sadd", "setdata", "acquire"}
        /\ loops[l].msg.id # loops[k].msg.id
        /\ ready = <<>>

\* The queue ids of the claims in progress: the messages MoveToProcessing has
\* added to processing and whose processJob has not yet come to its SREM.
LiveClaims ==
    {loops[l].msg.id : l \in {x \in Loops : loops[x].pc \in {"setdata", "acquire"}}}
        \cup {tasks[s].msg.id :
                 s \in {x \in Slots :
                           \/ tasks[x].pc \in {"guard", "abandon", "create", "run", "call",
                                               "fj_srem"}
                           \/ tasks[x].pc = "cj_srem" /\ tasks[x].success}}

\* C38: the reaper never removes a live claim.  A step of CleanupStaleJobs takes
\* out of processing no queue id of a claim in progress.
ReaperSparesLiveClaims ==
    [][(ticker.pc = "scan" /\ ticker' # ticker) =>
          (processing \ processing') \cap LiveClaims = {}]_vars

\* Every claim loop waits in BRPOP, has exited or was never started, and no
\* processJob is running: the workers hold no message.
WorkersAtRest ==
    /\ \A l \in Loops : loops[l].pc \in {"none", "dequeue", "stopped"}
    /\ \A s \in Slots : tasks[s].pc = "idle"

\* C39: claims are released.  Once the workers are idle or stopped, no queue id
\* they claimed is in processing and no job_data key of theirs exists, the
\* message a claim loop held when Stop() cancelled it included.
ClaimsReleased ==
    WorkersAtRest => (processing = {} /\ DOMAIN jobData = {})

\* C40: executions terminate.  A job_executions row is SUCCESS or FAILED once the
\* processJob that created it has returned (nothing writes the row after that),
\* also when a statement of the Metadata Store failed during the attempt; so no
\* row stays SCHEDULED or RUNNING for ever.
ExecutionsTerminate ==
    \A i \in handled : executions[i].status \in {StatusSuccess, StatusFailed}

====
